---- MODULE Spec2Model ----
(***************************************************************************)
(* Model of examples/project-explorer.py: the AssimilateProjectExplorer    *)
(* methods and the browse_project pipeline driven by the __main__ block.   *)
(*                                                                         *)
(* The generated REST client is the environment.  Every remote call either *)
(* returns a value or raises ApiException; the exception's body is None,   *)
(* empty bytes, bytes holding JSON, or bytes holding other text.  The name *)
(* json used by the handlers comes with the star imports of lines 15-18.   *)
(*                                                                         *)
(* Python values: None is a value of its own, different from the empty     *)
(* list << >> and from the empty dict.  A value that may be None is a       *)
(* record: an object is the record of its attributes, Str(s) is the string *)
(* s, List(items) is the list items, a file path is the record of its      *)
(* parts.  A list that is never None is a sequence.  A uuid is the pair    *)
(* <<first 8 characters, remainder>>.  A printed line is modelled by its   *)
(* label, not its text.                                                    *)
(*                                                                         *)
(* Spec runs browse_project and the __main__ block step by step.           *)
(* MethodSpec calls the methods of the class one at a time and keeps the   *)
(* whole outcome of the call (events, return value, exception) in result.  *)
(***************************************************************************)
EXTENDS Integers, Sequences, FiniteSets, TLC

VARIABLES
    pc,                 \* position of the __main__ script / browse_project
    target_group_name,  \* argument of browse_project
    groups,             \* local of browse_project (line 370)
    target_group,       \* local of browse_project (lines 377-384)
    shots,              \* local of browse_project (line 396)
    i,                  \* 0-based index of the thumbnail loop (line 405)
    thumbnails,         \* local of browse_project (line 404)
    current_project,    \* self.current_project
    current_group,      \* self.current_group
    current_construct,  \* self.current_construct
    calls,              \* remote operations issued so far, in order
    rets,               \* methods completed so far, in order, and how they ended
    last,               \* how the method completed last in the run ended
    result,             \* MethodSpec: the whole outcome of the method called last
    success,            \* value returned by browse_project
    escaped,            \* exception that left browse_project
    exit_code           \* argument of sys.exit

vars == <<pc, target_group_name, groups, target_group, shots, i, thumbnails,
          current_project, current_group, current_construct, calls, rets,
          last, result, success, escaped, exit_code>>

\* ------------------------------------------------------------------ bounds
MaxGroups == 2
MaxSlots == 2
MaxShotsPerSlot == 4

\* ------------------------------------------------------- program constants
ThumbnailLimit == 5
ThumbnailFrame == 0

None == [none |-> TRUE]
\* a string, where None may stand instead
Str(s) == [str |-> s]
\* a list, where None may stand instead
List(items) == [list |-> items]
\* the dict {}
EmptyDict == << >>
NoExc == "None"
PROJECT_NAME == "Project"

Min(a, b) == IF a < b THEN a ELSE b

\* ------------------------------------------------------------ environment
BodyKinds == {"None", "empty", "json", "text"}
Ok(v) == [ok |-> TRUE, body |-> "None", val |-> v]
Err(b) == [ok |-> FALSE, body |-> b, val |-> None]
Errs == {Err(b) : b \in BodyKinds}
Unused == [ok |-> FALSE, body |-> "unused", val |-> None]
Reply(vals) == {Ok(v) : v \in vals} \cup Errs

GroupNames == {"A", "B"}
TargetNames == {None, Str("")} \cup {Str(n) : n \in GroupNames}

\* the k-th group of a project: the first one is the active one, and the
\* k-th one holds k - 1 timelines
GroupAt(k, name) ==
    [uuid |-> <<"g", k>>, name |-> name, active |-> (k = 1),
     constructs |-> [j \in 1..(k - 1) |-> j]]
AllGroups == {GroupAt(k, name) : k \in 1..MaxGroups, name \in GroupNames}
GroupLists ==
    UNION {{[k \in 1..n |-> GroupAt(k, names[k])] : names \in [1..n -> GroupNames]}
           : n \in 0..MaxGroups}
\* the groups attribute of what projects_api.get_groups returns
GroupReplies == {None} \cup {List(gs) : gs \in GroupLists}
\* what projects_api.select_group may return, whatever group was asked for:
\* nothing, or any group of the project, reported active
SelectReplies == {None} \cup {[g EXCEPT !.active = TRUE] : g \in AllGroups}

ShotAt(s, v) ==
    [uuid |-> <<s, v>>, name |-> <<"shot", s, v>>, file |-> <<"file", s, v>>,
     length |-> 10 * s + v, timecode |-> "00:00:00:00"]
SlotOf(s, n) == [shots |-> List([v \in 1..n |-> ShotAt(s, v)])]
\* a slot is empty, holds one shot or holds MaxShotsPerSlot shots
ShotCounts == {0, 1, MaxShotsPerSlot}
\* the slot at place s of a timeline: its shots attribute is None or a list
SlotsAt(s) == {[shots |-> None]} \cup {SlotOf(s, n) : n \in ShotCounts}
\* the lists of up to MaxSlots slots
SlotLists ==
    UNION {{slots \in [1..n -> UNION {SlotsAt(s) : s \in 1..n}] :
                \A s \in 1..n : slots[s] \in SlotsAt(s)}
           : n \in 0..MaxSlots}
\* a timeline reports its resolution or none
Resolutions == {None, [w |-> 1920, h |-> 1080]}
ConstructOf(resolution, slots) ==
    [name |-> "Timeline", resolution |-> resolution, fps |-> 24, slots |-> slots]
\* what get_constructs_current may return, at any request: nothing, an
\* object with neither resolution nor slots, or a timeline whose slots
\* attribute is None or a list of up to MaxSlots slots
Constructs ==
    {None, [name |-> "Timeline", fps |-> 24]} \cup
    {ConstructOf(res, slots) :
        res \in Resolutions,
        slots \in {None} \cup {List(sl) : sl \in SlotLists}}

Projects == {None, [name |-> PROJECT_NAME], [name |-> "Other"]}
ProjectLists == {<< >>, <<[name |-> PROJECT_NAME, modified |-> 1]>>}
\* the projects attribute of what projects_api.get_projects returns
ProjectReplies == {None} \cup {List(ps) : ps \in ProjectLists}
SystemProps == {None, [system_name |-> "sys", version |-> 1, build |-> 1]}
ContentTypes == {"image/jpeg", "image/png", "None"}
Snapshots == [content_type : ContentTypes, has_data : BOOLEAN]
QueueItem == [name |-> "job", status |-> "waiting", frames_done |-> 0, frames_total |-> 10]
Queues == {<< >>, <<QueueItem>>}
\* what application_api.get_application_render_queue returns
QueueReplies == {None} \cup {List(q) : q \in Queues}
\* what a remote operation without a result returns
NoValue == {None}

\* ------------------------------------------------------------------ events
\* what a method does, in order: remote calls (with the reply re), printed
\* lines and files written
Call(op, arg, r) == [t |-> "call", what |-> op, arg |-> arg, ok |-> r.ok, re |-> r]
Say(line) == [t |-> "print", what |-> line, arg |-> << >>, ok |-> TRUE, re |-> Unused]
Write(path) == [t |-> "write", what |-> "open", arg |-> path, ok |-> TRUE, re |-> Unused]

Res(op, ev, ret, exc, e) == [op |-> op, ev |-> ev, ret |-> ret, exc |-> exc, e |-> e]

\* e.body is truthy: not None and not b''
BodyTruthy(b) == b \in {"json", "text"}
\* json.loads(e.body.decode('utf-8')): the exception it raises, if any
LoadsBody(b) ==
    IF b = "None" THEN "AttributeError"
    ELSE IF b = "json" THEN NoExc
    ELSE "JSONDecodeError"

\* if e.body: error_dict = json.loads(...); print(line)
GuardedReport(e, line) ==
    IF BodyTruthy(e.body)
    THEN IF LoadsBody(e.body) = NoExc
         THEN [ev |-> <<Say(line)>>, exc |-> NoExc]
         ELSE [ev |-> << >>, exc |-> LoadsBody(e.body)]
    ELSE [ev |-> << >>, exc |-> NoExc]


\* ----------------------------------------------------------------- methods
get_system_info(r) ==
    LET ev0 == <<Say("Retrieving system info"),
                 Call("get_system_properties", << >>, r)>>
    IN  IF r.ok
        THEN IF r.val = None
             THEN Res("get_system_info", ev0, None, "AttributeError", Unused)
             ELSE Res("get_system_info",
                      ev0 \o <<Say("System name"), Say("Software version")>>,
                      r.val, NoExc, Unused)
        ELSE LET h == GuardedReport(r, "ERR API Error")
             IN  Res("get_system_info", ev0 \o h.ev, None,
                     IF h.exc = NoExc THEN "ApiException" ELSE h.exc, r)

list_projects(r) ==
    LET ev0 == <<Say("Retrieving projects"), Call("get_projects", << >>, r)>>
        projects == r.val
    IN  IF r.ok
        THEN IF projects = None
             \* for proj in projects (line 81)
             THEN Res("list_projects", ev0 \o <<Say("type")>>,
                      None, "TypeError", Unused)
             ELSE Res("list_projects",
                      ev0 \o <<Say("type")>>
                          \o [k \in 1..Len(projects.list) |-> Say("project")],
                      projects.list, NoExc, Unused)
        ELSE LET h == GuardedReport(r, "ERR Error retrieving projects")
             IN  Res("list_projects", ev0 \o h.ev, << >>, h.exc, r)

\* enter_project that tries the project entry a second time when it fails
enter_projectRetry(project_name, rExit, rEnter, rCur) ==
    LET ev0 == <<Call("do_application_project_exit", << >>, rExit),
                 Say("Opening project"),
                 Call("do_application_project_enter", <<project_name>>, rEnter)>>
        ev1 == IF rEnter.ok
               THEN ev0 \o <<Call("get_projects_current", << >>, rCur)>>
               ELSE ev0 \o <<Call("do_application_project_enter",
                                  <<project_name>>, rEnter)>>
        e == IF rEnter.ok THEN rCur ELSE rEnter
    IN  IF e.ok
        THEN IF rCur.val = None
             THEN Res("enter_project", ev1, None, "AttributeError", Unused)
             ELSE Res("enter_project", ev1 \o <<Say("Current project")>>,
                      rCur.val, NoExc, Unused)
        ELSE LET h == GuardedReport(e, "ERR Error opening project")
             IN  Res("enter_project", ev1 \o h.ev, None,
                     IF h.exc = NoExc THEN "ApiException" ELSE h.exc, e)

enter_project(project_name, rExit, rEnter, rCur) ==
    LET ev0 == <<Call("do_application_project_exit", << >>, rExit),
                 Say("Opening project"),
                 Call("do_application_project_enter", <<project_name>>, rEnter)>>
        ev1 == IF rEnter.ok
               THEN ev0 \o <<Call("get_projects_current", << >>, rCur)>>
               ELSE ev0
        e == IF rEnter.ok THEN rCur ELSE rEnter
    IN  IF e.ok
        THEN IF rCur.val = None
             THEN Res("enter_project", ev1, None, "AttributeError", Unused)
             ELSE Res("enter_project", ev1 \o <<Say("Current project")>>,
                      rCur.val, NoExc, Unused)
        ELSE LET h == GuardedReport(e, "ERR Error opening project")
             IN  Res("enter_project", ev1 \o h.ev, None,
                     IF h.exc = NoExc THEN "ApiException" ELSE h.exc, e)

RECURSIVE GroupLines(_, _)
GroupLines(gs, detailed) ==
    IF gs = << >> THEN << >>
    ELSE LET group == Head(gs)
         IN  <<Say("group")>>
             \o (IF detailed /\ group.constructs # << >>
                 THEN <<Say("timelines")>> ELSE << >>)
             \o GroupLines(Tail(gs), detailed)

get_groups(detailed, r) ==
    LET level == IF detailed THEN "ALL" ELSE ""
        ev0 == <<Say("Retrieving groups"), Call("get_groups", <<level>>, r)>>
        groups_ == r.val
    IN  IF r.ok
        THEN IF groups_ = None
             \* len(groups) (line 122)
             THEN Res("get_groups", ev0, None, "TypeError", Unused)
             ELSE Res("get_groups",
                      ev0 \o <<Say("groups found")>>
                          \o GroupLines(groups_.list, detailed),
                      groups_.list, NoExc, Unused)
        ELSE IF LoadsBody(r.body) = NoExc
             THEN Res("get_groups", ev0 \o <<Say("ERR Error retrieving groups")>>,
                      << >>, NoExc, r)
             ELSE Res("get_groups", ev0, << >>, LoadsBody(r.body), r)

\* select_group that logs the error and returns None instead of re-raising
select_groupSwallow(group_uuid, r) ==
    LET ev0 == <<Say("Selecting group"),
                 Call("select_group", <<group_uuid, "ALL">>, r)>>
    IN  IF r.ok
        THEN Res("select_group", ev0 \o <<Say("Group is now active")>>,
                 r.val, NoExc, Unused)
        ELSE Res("select_group", ev0 \o <<Say("ERR Error selecting group")>>,
                 None, NoExc, r)

select_group(group_uuid, r) ==
    LET ev0 == <<Say("Selecting group"),
                 Call("select_group", <<group_uuid, "ALL">>, r)>>
    IN  IF r.ok
        THEN Res("select_group", ev0 \o <<Say("Group is now active")>>,
                 r.val, NoExc, Unused)
        ELSE Res("select_group", ev0 \o <<Say("ERR Error selecting group")>>,
                 None, "ApiException", r)

\* safe_get_attr(obj, attr_name, default), lines 25-31.  A dict and an object
\* are both records: obj.get and getattr give the default when the record has
\* no such field, and the field's value, None included, when it has one.
safe_get_attr(obj, attr_name, default) ==
    IF obj = None THEN default
    ELSE IF attr_name \in DOMAIN obj THEN obj[attr_name]
    ELSE default

\* the truth value of a dict or None
DictTruthy(d) == d # None /\ d # EmptyDict

get_current_construct(r) ==
    LET ev0 == <<Say("Retrieving active timeline"),
                 Call("get_constructs_current", <<"ALL">>, r)>>
        resolution == safe_get_attr(r.val, "resolution", EmptyDict)
    IN  IF r.ok
        THEN Res("get_current_construct",
                 ev0 \o <<Say("Timeline")>>
                     \o (IF DictTruthy(resolution) THEN <<Say("Resolution")>> ELSE << >>)
                     \o <<Say("FPS")>>,
                 r.val, NoExc, Unused)
        ELSE Res("get_current_construct",
                 ev0 \o <<Say("ERR Error retrieving construct")>>,
                 None, "ApiException", r)

\* one shot_info dict (lines 188-196); slot_idx and version_idx are 0-based
ShotInfo(shot, slot_idx, version_idx) ==
    [uuid |-> shot.uuid, name |-> shot.name, slot_idx |-> slot_idx,
     version_idx |-> version_idx,
     file |-> safe_get_attr(shot, "file", "N/A"),
     length |-> safe_get_attr(shot, "length", 0),
     timecode |-> safe_get_attr(shot, "timecode", "00:00:00:00")]

\* the inner loop (line 187) over slot_shots from version_idx on
RECURSIVE SlotShots(_, _, _)
SlotShots(slot_shots, slot_idx, version_idx) ==
    IF version_idx >= Len(slot_shots) THEN << >>
    ELSE <<ShotInfo(slot_shots[version_idx + 1], slot_idx, version_idx)>>
         \o SlotShots(slot_shots, slot_idx, version_idx + 1)

\* the outer loop (line 185) over slots from slot_idx on: the entries it
\* appends, and TypeError when it comes to a slot whose shots attribute is
\* None (enumerate(slot_shots), line 187)
RECURSIVE AllShots(_, _)
AllShots(slots, slot_idx) ==
    IF slot_idx >= Len(slots) THEN [all_shots |-> << >>, exc |-> NoExc]
    ELSE LET slot_shots == safe_get_attr(slots[slot_idx + 1], "shots", List(<< >>))
         IN  IF slot_shots = None
             THEN [all_shots |-> << >>, exc |-> "TypeError"]
             ELSE LET rest == AllShots(slots, slot_idx + 1)
                  IN  [all_shots |-> SlotShots(slot_shots.list, slot_idx, 0)
                                     \o rest.all_shots,
                       exc |-> rest.exc]

get_all_shots(r) ==
    LET ev0 == <<Say("Collecting shots"),
                 Call("get_constructs_current", <<"ALL">>, r)>>
        slots == safe_get_attr(r.val, "slots", List(<< >>))
    IN  IF r.ok
        THEN IF slots = None
             \* enumerate(slots) (line 185)
             THEN Res("get_all_shots", ev0, None, "TypeError", Unused)
             ELSE LET loop == AllShots(slots.list, 0)
                      lines == [k \in 1..Len(loop.all_shots) |-> Say("Slot Version")]
                  IN  IF loop.exc # NoExc
                      THEN Res("get_all_shots", ev0 \o lines, None, loop.exc, Unused)
                      ELSE Res("get_all_shots", ev0 \o lines \o <<Say("Total")>>,
                               loop.all_shots, NoExc, Unused)
        ELSE Res("get_all_shots", ev0 \o <<Say("ERR Error collecting shots")>>,
                 << >>, NoExc, r)

\* shot_uuid[:8]
Prefix8(uuid) == uuid[1]

generate_thumbnail(shot_uuid, frame, output_path, now, r) ==
    LET path == IF output_path = None
                THEN [path |-> <<"/tmp/thumbnail", Prefix8(shot_uuid), now>>]
                ELSE output_path
        ev0 == <<Call("do_application_render_snapshot",
                      <<shot_uuid, frame, TRUE>>, r)>>
    IN  IF r.ok
        THEN Res("generate_thumbnail",
                 IF r.val.content_type = "image/jpeg" /\ r.val.has_data
                 THEN ev0 \o <<Write(path)>> ELSE ev0,
                 path, NoExc, Unused)
        ELSE Res("generate_thumbnail", ev0 \o <<Say("WARN Thumbnail failed")>>,
                 None, NoExc, r)

get_render_queue(r) ==
    LET ev0 == <<Say("Render queue status"),
                 Call("get_application_render_queue", << >>, r)>>
    IN  IF r.ok
        \* if not queue (line 250): None and [] are both falsy
        THEN IF r.val = None \/ r.val = List(<< >>)
             THEN Res("get_render_queue", ev0 \o <<Say("Queue is empty")>>,
                      << >>, NoExc, Unused)
             ELSE Res("get_render_queue",
                      ev0 \o [k \in 1..Len(r.val.list) |-> Say("item")],
                      r.val.list, NoExc, Unused)
        ELSE Res("get_render_queue", ev0 \o <<Say("ERR Error retrieving queue")>>,
                 << >>, NoExc, r)

\* the truth value of a string or None
Truthy(name) == name # None /\ name # Str("")

enter_player(construct_uuid, r) ==
    LET ev0 == IF Truthy(construct_uuid)
               THEN <<Call("do_application_player_enter_timeline",
                           <<construct_uuid>>, r)>>
               ELSE <<Call("do_application_player_enter_timeline_current",
                           << >>, r)>>
    IN  IF r.ok
        THEN Res("enter_player", ev0 \o <<Say("Player mode activated")>>,
                 None, NoExc, Unused)
        ELSE Res("enter_player", ev0 \o <<Say("ERR Error opening player")>>,
                 None, "ApiException", r)

set_playback_mode(mode, loop, r) ==
    LET ev0 == <<Call("set_application_player_playmode",
                      <<mode, loop, "ON", 1, FALSE>>, r)>>
    IN  IF r.ok
        THEN Res("set_playback_mode", ev0 \o <<Say("Playback")>>,
                 None, NoExc, Unused)
        ELSE Res("set_playback_mode", ev0 \o <<Say("ERR Error setting playback")>>,
                 None, "ApiException", r)



\* ----------------------------------------------------------- browse_project
\* next((g for g in groups if g.name == target_group_name), None)
RECURSIVE FirstNamed(_, _)
FirstNamed(gs, name) ==
    IF gs = << >> THEN None
    ELSE IF Str(Head(gs).name) = name THEN Head(gs)
    ELSE FirstNamed(Tail(gs), name)

\* the selection with groups[0] in place of groups[-1]
SelectTargetFirst(gs, name) ==
    IF Truthy(name) THEN FirstNamed(gs, name) ELSE gs[1]

\* lines 377-384; the result is None or a group
SelectTarget(gs, name) ==
    IF Truthy(name) THEN FirstNamed(gs, name) ELSE gs[Len(gs)]

\* the loop over shots instead of shots[:5]
ThumbShotsAll(all_shots) == all_shots

\* shots[:5]
ThumbShots(all_shots) == SubSeq(all_shots, 1, Min(ThumbnailLimit, Len(all_shots)))

\* f"/tmp/project_thumb_{i}_{shot['uuid'][:8]}.jpg"
ThumbPath(idx, uuid) == [path |-> <<"/tmp/project_thumb", idx, Prefix8(uuid)>>]

\* browse_project with the except ApiException clause only
BrowseExceptApiOnly(res) ==
    IF res.exc = "ApiException"
    THEN [ret |-> "False", escaped |-> NoExc,
          ev |-> <<Say("ERR API Error in workflow"), Say("Status code")>>
                 \o (IF BodyTruthy(res.e.body) THEN <<Say("Details")>> ELSE << >>)]
    ELSE [ret |-> "unset", escaped |-> res.exc, ev |-> << >>]

\* which except clause of browse_project (lines 433-443) takes the exception
BrowseExcept(res) ==
    IF res.exc = "ApiException"
    THEN [ret |-> "False", escaped |-> NoExc,
          ev |-> <<Say("ERR API Error in workflow"), Say("Status code")>>
                 \o (IF BodyTruthy(res.e.body) THEN <<Say("Details")>> ELSE << >>)]
    ELSE [ret |-> "False", escaped |-> NoExc,
          ev |-> <<Say("ERR Unexpected error"), Say("traceback")>>]

IsCall(ev) == ev.t = "call"
\* the remote calls a method made, in order, as the run's log keeps them
CallsOf(res, by) ==
    LET cs == SelectSeq(res.ev, IsCall)
    IN  [k \in 1..Len(cs) |-> [op |-> cs[k].what, arg |-> cs[k].arg, by |-> by]]
\* a remote call of the method raised ApiException
CallFailed(res) == \E k \in 1..Len(res.ev) : IsCall(res.ev[k]) /\ ~res.ev[k].ok
\* how a method ended: what it raised, and whether a remote call of it failed
Outcome(res) == [op |-> res.op, exc |-> res.exc, failed |-> CallFailed(res)]

\* the arguments and locals of browse_project exist only while it runs
NoLocals ==
    /\ target_group_name' = None
    /\ groups' = << >>
    /\ target_group' = None
    /\ shots' = << >>
    /\ i' = 0
    /\ thumbnails' = << >>

\* A method called from the try block of browse_project has completed with
\* res: the run's log takes its remote calls and how it ended.
Record(res) ==
    /\ calls' = calls \o CallsOf(res, "browse_project")
    /\ rets' = Append(rets, [op |-> res.op, exc |-> res.exc, by |-> "browse_project"])
    /\ last' = Outcome(res)

\* the except clauses take what the method raised
Raised(res) ==
    /\ pc' = "returned"
    /\ success' = BrowseExcept(res).ret
    /\ escaped' = BrowseExcept(res).escaped
    /\ NoLocals

Return(value) ==
    /\ pc' = "returned"
    /\ success' = value
    /\ escaped' = NoExc
    /\ NoLocals

Continue(next) ==
    /\ pc' = next
    /\ UNCHANGED <<success, escaped>>

\* line 364
SystemInfoStep ==
    /\ pc = "system_info"
    /\ \E r \in Reply(SystemProps) :
        LET res == get_system_info(r)
        IN  /\ Record(res)
            /\ IF res.exc # NoExc
               THEN Raised(res)
               ELSE /\ Continue("enter_project")
                    /\ UNCHANGED <<target_group_name, groups, target_group,
                                   shots, i, thumbnails>>
    /\ UNCHANGED <<current_project, current_group, current_construct,
                   result, exit_code>>

\* line 367
EnterProjectStep ==
    /\ pc = "enter_project"
    /\ \E rExit \in Reply(NoValue), rEnter \in Reply(NoValue) :
       \E rCur \in IF rEnter.ok THEN Reply(Projects) ELSE {Unused} :
        LET res == enter_project(PROJECT_NAME, rExit, rEnter, rCur)
        IN  /\ Record(res)
            /\ IF res.exc # NoExc
               THEN Raised(res)
               ELSE /\ Continue("get_groups")
                    /\ UNCHANGED <<target_group_name, groups, target_group,
                                   shots, i, thumbnails>>
    /\ UNCHANGED <<current_project, current_group, current_construct,
                   result, exit_code>>

\* line 370
GetGroupsStep ==
    /\ pc = "get_groups"
    /\ \E r \in Reply(GroupReplies) :
        LET res == get_groups(TRUE, r)
        IN  /\ Record(res)
            /\ IF res.exc # NoExc
               THEN Raised(res)
               ELSE /\ Continue("select_group")
                    /\ groups' = res.ret
                    /\ UNCHANGED <<target_group_name, target_group,
                                   shots, i, thumbnails>>
    /\ UNCHANGED <<current_project, current_group, current_construct,
                   result, exit_code>>

\* lines 372-374
NoGroupsStep ==
    /\ pc = "select_group"
    /\ groups = << >>
    /\ Return("False")
    /\ UNCHANGED <<current_project, current_group, current_construct,
                   calls, rets, last, result, exit_code>>

\* lines 376-388 when no group is selected
NoTargetStep ==
    /\ pc = "select_group"
    /\ groups # << >>
    /\ SelectTarget(groups, target_group_name) = None
    /\ Return("False")
    /\ UNCHANGED <<current_project, current_group, current_construct,
                   calls, rets, last, result, exit_code>>

\* lines 376-390 when a group is selected; select_group stores what the
\* remote call returned (line 142)
SelectGroupStep ==
    /\ pc = "select_group"
    /\ groups # << >>
    /\ SelectTarget(groups, target_group_name) # None
    /\ \E r \in Reply(SelectReplies) :
        LET picked == SelectTarget(groups, target_group_name)
            res == select_group(picked.uuid, r)
        IN  /\ Record(res)
            /\ IF res.exc # NoExc
               THEN Raised(res) /\ UNCHANGED current_group
               ELSE /\ Continue("get_construct")
                    /\ target_group' = picked
                    /\ current_group' = res.ret
                    /\ UNCHANGED <<target_group_name, groups, shots, i, thumbnails>>
    /\ UNCHANGED <<current_project, current_construct, result, exit_code>>

\* line 393; get_current_construct stores what the remote call returned
\* (line 160).  groups and target_group_name are not read past line 390 and
\* are kept no longer.
GetConstructStep ==
    /\ pc = "get_construct"
    /\ \E r \in Reply(Constructs) :
        LET res == get_current_construct(r)
        IN  /\ Record(res)
            /\ IF res.exc # NoExc
               THEN Raised(res) /\ UNCHANGED current_construct
               ELSE /\ Continue("get_shots")
                    /\ current_construct' = res.ret
                    /\ target_group_name' = None
                    /\ groups' = << >>
                    /\ UNCHANGED <<target_group, shots, i, thumbnails>>
    /\ UNCHANGED <<current_project, current_group, result, exit_code>>

\* lines 396-404; get_all_shots fetches the timeline again (line 181)
GetShotsStep ==
    /\ pc = "get_shots"
    /\ \E r \in Reply(Constructs) :
        LET res == get_all_shots(r)
        IN  /\ Record(res)
            /\ IF res.exc # NoExc
               THEN Raised(res)
               ELSE IF res.ret = << >>
               THEN Return("False")
               ELSE /\ Continue("thumbnails")
                    /\ shots' = res.ret
                    /\ thumbnails' = << >>
                    /\ i' = 0
                    /\ UNCHANGED <<target_group_name, groups, target_group>>
    /\ UNCHANGED <<current_project, current_group, current_construct,
                   result, exit_code>>

\* one iteration of the loop of lines 405-411
ThumbnailStep ==
    /\ pc = "thumbnails"
    /\ i < Len(ThumbShots(shots))
    /\ \E r \in Reply(Snapshots) :
        LET shot == ThumbShots(shots)[i + 1]
            thumb_path == ThumbPath(i, shot.uuid)
            res == generate_thumbnail(shot.uuid, ThumbnailFrame, thumb_path, 0, r)
        IN  /\ Record(res)
            /\ IF res.exc # NoExc
               THEN Raised(res)
               ELSE /\ thumbnails' = IF res.ret # None
                                     THEN Append(thumbnails, res.ret)
                                     ELSE thumbnails
                    /\ i' = i + 1
                    /\ Continue(IF i + 1 < Len(ThumbShots(shots))
                                THEN "thumbnails" ELSE "render_queue")
                    /\ UNCHANGED <<target_group_name, groups, target_group, shots>>
    /\ UNCHANGED <<current_project, current_group, current_construct,
                   result, exit_code>>

\* line 414
RenderQueueStep ==
    /\ pc = "render_queue"
    /\ \E r \in Reply(QueueReplies) :
        LET res == get_render_queue(r)
        IN  /\ Record(res)
            /\ IF res.exc # NoExc
               THEN Raised(res)
               ELSE /\ Continue("enter_player")
                    /\ UNCHANGED <<target_group_name, groups, target_group,
                                   shots, i, thumbnails>>
    /\ UNCHANGED <<current_project, current_group, current_construct,
                   result, exit_code>>

\* line 418
EnterPlayerStep ==
    /\ pc = "enter_player"
    /\ \E r \in Reply(NoValue) :
        LET res == enter_player(None, r)
        IN  /\ Record(res)
            /\ IF res.exc # NoExc
               THEN Raised(res)
               ELSE /\ Continue("playback")
                    /\ UNCHANGED <<target_group_name, groups, target_group,
                                   shots, i, thumbnails>>
    /\ UNCHANGED <<current_project, current_group, current_construct,
                   result, exit_code>>

\* lines 419-431
PlaybackStep ==
    /\ pc = "playback"
    /\ \E r \in Reply(NoValue) :
        LET res == set_playback_mode("PLAY_FRW", "LOOP", r)
        IN  /\ Record(res)
            /\ IF res.exc # NoExc THEN Raised(res) ELSE Return("True")
    /\ UNCHANGED <<current_project, current_group, current_construct,
                   result, exit_code>>

\* ------------------------------------------------------------------ __main__
\* lines 459 and 470 when browse_project returned True
ExitSuccess ==
    /\ pc = "returned"
    /\ success = "True"
    /\ pc' = "exit"
    /\ exit_code' = 0
    /\ UNCHANGED <<target_group_name, groups, target_group, shots, i, thumbnails,
                   current_project, current_group, current_construct,
                   calls, rets, last, result, success, escaped>>

\* lines 459-462 and 467-470
DebugSystemInfo ==
    /\ pc = "returned"
    /\ success # "True"
    /\ \E r \in Reply(SystemProps) :
        LET res == get_system_info(r)
        IN  /\ calls' = calls \o CallsOf(res, "main")
            /\ rets' = Append(rets, [op |-> res.op, exc |-> res.exc, by |-> "main"])
            /\ last' = Outcome(res)
            /\ IF res.exc # NoExc
               THEN pc' = "exit" /\ exit_code' = 1
               ELSE pc' = "debug_projects" /\ UNCHANGED exit_code
    /\ UNCHANGED <<target_group_name, groups, target_group, shots, i, thumbnails,
                   current_project, current_group, current_construct,
                   result, success, escaped>>

\* lines 463-470
DebugListProjects ==
    /\ pc = "debug_projects"
    /\ \E r \in Reply(ProjectReplies) :
        LET res == list_projects(r)
        IN  /\ calls' = calls \o CallsOf(res, "main")
            /\ rets' = Append(rets, [op |-> res.op, exc |-> res.exc, by |-> "main"])
            /\ last' = Outcome(res)
    /\ pc' = "exit"
    /\ exit_code' = 1
    /\ UNCHANGED <<target_group_name, groups, target_group, shots, i, thumbnails,
                   current_project, current_group, current_construct,
                   result, success, escaped>>

NoCall == Res("none", << >>, None, NoExc, Unused)

Init ==
    /\ pc = "system_info"
    /\ target_group_name \in TargetNames
    /\ groups = << >>
    /\ target_group = None
    /\ shots = << >>
    /\ i = 0
    /\ thumbnails = << >>
    /\ current_project = None
    /\ current_group = None
    /\ current_construct = None
    /\ calls = << >>
    /\ rets = << >>
    /\ last = Outcome(NoCall)
    /\ result = NoCall
    /\ success = "unset"
    /\ escaped = NoExc
    /\ exit_code = -1

Next ==
    \/ SystemInfoStep
    \/ EnterProjectStep
    \/ GetGroupsStep
    \/ NoGroupsStep
    \/ NoTargetStep
    \/ SelectGroupStep
    \/ GetConstructStep
    \/ GetShotsStep
    \/ ThumbnailStep
    \/ RenderQueueStep
    \/ EnterPlayerStep
    \/ PlaybackStep
    \/ ExitSuccess
    \/ DebugSystemInfo
    \/ DebugListProjects

Spec == Init /\ [][Next]_vars


\* ------------------------------------------------- the methods one at a time
\* the arguments a caller may pass
ShotUuids == {<<s, v>> : s \in 1..MaxSlots, v \in 1..2}
Frames == {0, 1}
OutputPaths == {None, ThumbPath(0, <<1, 1>>)}
ConstructUuids == {None, Str(""), Str("c1")}
PlayModes == {"PAUSE", "PLAY_FRW"}

\* a method called on a fresh explorer object has completed with res
Called(res) ==
    /\ pc' = "called"
    /\ result' = res
    /\ UNCHANGED <<target_group_name, groups, target_group, shots, i,
                   thumbnails, current_project, calls, rets, last, success,
                   escaped, exit_code>>

CallGetSystemInfo ==
    /\ pc = "method"
    /\ \E r \in Reply(SystemProps) : Called(get_system_info(r))
    /\ UNCHANGED <<current_group, current_construct>>

CallListProjects ==
    /\ pc = "method"
    /\ \E r \in Reply(ProjectReplies) : Called(list_projects(r))
    /\ UNCHANGED <<current_group, current_construct>>

CallEnterProject ==
    /\ pc = "method"
    /\ \E rExit \in Reply(NoValue), rEnter \in Reply(NoValue) :
       \E rCur \in IF rEnter.ok THEN Reply(Projects) ELSE {Unused} :
           Called(enter_project(PROJECT_NAME, rExit, rEnter, rCur))
    /\ UNCHANGED <<current_group, current_construct>>

CallGetGroups ==
    /\ pc = "method"
    /\ \E detailed \in BOOLEAN, r \in Reply(GroupReplies) :
           Called(get_groups(detailed, r))
    /\ UNCHANGED <<current_group, current_construct>>

\* line 142: the returned group becomes self.current_group
CallSelectGroup ==
    /\ pc = "method"
    /\ \E g \in AllGroups, r \in Reply(SelectReplies) :
        LET res == select_group(g.uuid, r)
        IN  /\ Called(res)
            /\ current_group' = IF res.exc = NoExc THEN res.ret ELSE current_group
    /\ UNCHANGED current_construct

\* line 160: the returned timeline becomes self.current_construct
CallGetCurrentConstruct ==
    /\ pc = "method"
    /\ \E r \in Reply(Constructs) :
        LET res == get_current_construct(r)
        IN  /\ Called(res)
            /\ current_construct' =
                  IF res.exc = NoExc THEN res.ret ELSE current_construct
    /\ UNCHANGED current_group

CallGetAllShots ==
    /\ pc = "method"
    /\ \E r \in Reply(Constructs) : Called(get_all_shots(r))
    /\ UNCHANGED <<current_group, current_construct>>

CallGenerateThumbnail ==
    /\ pc = "method"
    /\ \E u \in ShotUuids, f \in Frames, p \in OutputPaths, r \in Reply(Snapshots) :
           Called(generate_thumbnail(u, f, p, 0, r))
    /\ UNCHANGED <<current_group, current_construct>>

CallGetRenderQueue ==
    /\ pc = "method"
    /\ \E r \in Reply(QueueReplies) : Called(get_render_queue(r))
    /\ UNCHANGED <<current_group, current_construct>>

CallEnterPlayer ==
    /\ pc = "method"
    /\ \E c \in ConstructUuids, r \in Reply(NoValue) : Called(enter_player(c, r))
    /\ UNCHANGED <<current_group, current_construct>>

CallSetPlaybackMode ==
    /\ pc = "method"
    /\ \E m \in PlayModes, r \in Reply(NoValue) :
           Called(set_playback_mode(m, "LOOP", r))
    /\ UNCHANGED <<current_group, current_construct>>

\* the explorer object as __init__ leaves it (lines 49-52)
MethodInit ==
    /\ pc = "method"
    /\ target_group_name = None
    /\ groups = << >>
    /\ target_group = None
    /\ shots = << >>
    /\ i = 0
    /\ thumbnails = << >>
    /\ current_project = None
    /\ current_group = None
    /\ current_construct = None
    /\ calls = << >>
    /\ rets = << >>
    /\ last = Outcome(NoCall)
    /\ result = NoCall
    /\ success = "unset"
    /\ escaped = NoExc
    /\ exit_code = -1

MethodNext ==
    \/ CallGetSystemInfo
    \/ CallListProjects
    \/ CallEnterProject
    \/ CallGetGroups
    \/ CallSelectGroup
    \/ CallGetCurrentConstruct
    \/ CallGetAllShots
    \/ CallGenerateThumbnail
    \/ CallGetRenderQueue
    \/ CallEnterPlayer
    \/ CallSetPlaybackMode

MethodSpec == MethodInit /\ [][MethodNext]_vars


\* ------------------------------------------------------------------ claims
Finished == pc \in {"returned", "debug_projects", "exit"}
Running == pc \in {"thumbnails", "render_queue", "enter_player", "playback"}
IsBrowseCall(c) == c.by = "browse_project"
IsBrowseRet(c) == c.by = "browse_project"
BrowseCalls == SelectSeq(calls, IsBrowseCall)
BrowseRets == SelectSeq(rets, IsBrowseRet)
CallEvents(r) == SelectSeq(r.ev, IsCall)
IsWrite(ev) == ev.t = "write"
Count(seq, op) == Cardinality({k \in 1..Len(seq) : seq[k].op = op})

StepsAfterSelect ==
    {"get_constructs_current", "do_application_render_snapshot",
     "get_application_render_queue", "do_application_player_enter_timeline",
     "do_application_player_enter_timeline_current",
     "set_application_player_playmode"}

\* C1: when the select_group call of a run fails with a remote error,
\* browse_project returns False at once and the run issues no fetch of the
\* construct, no snapshot request, no render-queue fetch, no player entry and
\* no playback-mode call.
C1_SelectFailureStops ==
    /\ (last.op = "select_group" /\ last.failed) =>
          /\ pc = "returned"
          /\ success = "False"
    /\ (\E k \in 1..Len(rets) :
            rets[k].op = "select_group" /\ rets[k].exc # NoExc) =>
          /\ Finished
          /\ success = "False"
          /\ \A k \in 1..Len(calls) : calls[k].op \notin StepsAfterSelect

C1_Witness ==
    /\ pc = "exit"
    /\ \E k \in 1..Len(rets) :
          rets[k].op = "select_group" /\ rets[k].exc = "ApiException"


\* the select_group request for the group uuid, as the run's log keeps it
SelectCall(uuid) ==
    [op |-> "select_group", arg |-> <<uuid, "ALL">>, by |-> "browse_project"]

\* position k holds the first group of gs named n
FirstMatch(gs, n, k) ==
    /\ k \in 1..Len(gs)
    /\ Str(gs[k].name) = n
    /\ \A j \in 1..(k - 1) : Str(gs[j].name) # n

\* The step of browse_project that follows a non-empty get_groups selects,
\* when given(name), the first group named name, aborts without a select_group
\* call when no group is named so, and selects the last group otherwise.
SelectionRule(given) ==
    (pc = "select_group" /\ groups # << >>) =>
        IF given
        THEN IF \E k \in 1..Len(groups) : Str(groups[k].name) = target_group_name
             THEN \E k \in 1..Len(groups) :
                     /\ FirstMatch(groups, target_group_name, k)
                     /\ calls' = Append(calls, SelectCall(groups[k].uuid))
             ELSE /\ calls' = calls
                  /\ pc' = "returned"
                  /\ success' = "False"
        ELSE calls' = Append(calls, SelectCall(groups[Len(groups)].uuid))

\* C2 as stated: a target name is given whenever it is not None.
C2_AnyGivenNameSelects ==
    [][SelectionRule(target_group_name # None)]_vars

\* C2 as amended: a target name that is the empty string counts as not given,
\* so that None and "" both select the last group; every other name selects
\* the first group of that name or aborts without a select_group call.
C2_NonEmptyNameSelects ==
    [][SelectionRule(target_group_name # None /\ target_group_name # Str(""))]_vars

C2_Witness ==
    /\ pc = "get_construct"
    /\ Len(groups) = 2
    /\ target_group_name = Str(groups[1].name)
    /\ groups[2].name = groups[1].name
    /\ calls[Len(calls)] = SelectCall(groups[1].uuid)


ImageTypes == {"image/jpeg", "image/png"}

\* C3: a generate_thumbnail whose reply declares no image content type
\* returns the failure marker instead of the output path and writes no file.
C3_NonImageIsFailure ==
    (/\ result.op = "generate_thumbnail"
     /\ ~CallFailed(result)
     /\ CallEvents(result)[1].re.val.content_type \notin ImageTypes) =>
        /\ result.ret = None
        /\ \A k \in 1..Len(result.ev) : ~IsWrite(result.ev[k])

IsSnapshot(c) == c.op = "do_application_render_snapshot"
SnapshotLog == SelectSeq(BrowseCalls, IsSnapshot)
SnapshotCalls == Len(SnapshotLog)

\* C4: a run issues at most 5 snapshot requests; while the loop runs it has
\* issued one for each of the first i shots; once the loop is over it has
\* issued min(5, number of shots); the k-th request is for the k-th shot of
\* the flattened sequence at frame 0; and a request that fails with a remote
\* error leaves the run going (the next request, or the render queue,
\* follows).
C4_ThumbnailRequests ==
    /\ SnapshotCalls <= ThumbnailLimit
    /\ pc = "thumbnails" => SnapshotCalls = i /\ i < Min(ThumbnailLimit, Len(shots))
    /\ pc \in {"render_queue", "enter_player", "playback"} =>
          SnapshotCalls = Min(ThumbnailLimit, Len(shots))
    /\ Running =>
          \A k \in 1..SnapshotCalls :
              SnapshotLog[k].arg = <<shots[k].uuid, 0, TRUE>>
    /\ success = "True" => SnapshotCalls >= 1
    /\ (last.op = "generate_thumbnail" /\ last.failed) =>
          /\ last.exc = NoExc
          /\ pc \in {"thumbnails", "render_queue"}
          /\ success = "unset"

C4_Witness ==
    /\ pc = "playback"
    /\ Len(shots) > ThumbnailLimit
    /\ SnapshotCalls = ThumbnailLimit
    /\ thumbnails = << >>

Pair(info) == <<info.slot_idx, info.version_idx>>
\* the slots of the timeline a get_constructs_current reply carries, and the
\* shots of a slot
SlotsOf(reply) == safe_get_attr(reply.val, "slots", List(<< >>))
ShotsOf(slot) == safe_get_attr(slot, "shots", List(<< >>))
RECURSIVE ShotTotal(_)
ShotTotal(slots) ==
    IF slots = << >> THEN 0
    ELSE Len(ShotsOf(Head(slots)).list) + ShotTotal(Tail(slots))

\* C5: for every construct the fetch gives, get_all_shots returns a sequence
\* of as many entries as the slots of the construct hold shots, in slot order
\* then shot order, with pairwise distinct (slot_idx, version_idx), each entry
\* being the shot at that position.
C5_FlattenShots ==
    (result.op = "get_all_shots" /\ ~CallFailed(result)) =>
        /\ result.exc = NoExc
        /\ LET slots == SlotsOf(CallEvents(result)[1].re).list
               out == result.ret
           IN  /\ Len(out) = ShotTotal(slots)
               /\ \A a, b \in 1..Len(out) : a # b => Pair(out[a]) # Pair(out[b])
               /\ \A a, b \in 1..Len(out) :
                     a < b => \/ out[a].slot_idx < out[b].slot_idx
                              \/ /\ out[a].slot_idx = out[b].slot_idx
                                 /\ out[a].version_idx < out[b].version_idx
               /\ \A a \in 1..Len(out) :
                     /\ out[a].slot_idx \in 0..(Len(slots) - 1)
                     /\ out[a].version_idx \in
                           0..(Len(ShotsOf(slots[out[a].slot_idx + 1]).list) - 1)
                     /\ out[a].uuid =
                           ShotsOf(slots[out[a].slot_idx + 1])
                               .list[out[a].version_idx + 1].uuid
                     /\ out[a].name =
                           ShotsOf(slots[out[a].slot_idx + 1])
                               .list[out[a].version_idx + 1].name


FailOpen ==
    {"list_projects", "get_groups", "get_all_shots", "get_render_queue",
     "generate_thumbnail"}

\* C6: list_projects, get_groups, get_all_shots, get_render_queue and
\* generate_thumbnail fail open on a remote error, whether the error carries
\* a structured body or none: an empty result, and no exception for the caller.
C6_FailOpen ==
    (/\ result.op \in FailOpen
     /\ CallFailed(result)
     /\ result.e.body \in {"None", "json"}) =>
        /\ result.exc = NoExc
        /\ result.ret = IF result.op = "generate_thumbnail" THEN None ELSE << >>

Diagnostics ==
    {"ERR API Error", "ERR Error retrieving projects", "ERR Error opening project",
     "ERR Error retrieving groups", "ERR Error selecting group",
     "ERR Error retrieving construct", "ERR Error collecting shots",
     "WARN Thumbnail failed", "ERR Error retrieving queue",
     "ERR Error opening player", "ERR Error setting playback"}

\* C7: every remote error is reported by a printed diagnostic line of the
\* operation in which it occurs, after the call that failed, before the
\* operation's next remote call and before it returns or re-raises.
C7_EveryErrorReported ==
    \A k \in 1..Len(result.ev) :
        (IsCall(result.ev[k]) /\ ~result.ev[k].ok) =>
            \E d \in (k + 1)..Len(result.ev) :
                /\ result.ev[d].t = "print"
                /\ result.ev[d].what \in Diagnostics
                /\ \A j \in (k + 1)..(d - 1) : ~IsCall(result.ev[j])

\* C8: enter_project issues the project exit, then the project entry whatever
\* the exit did, then (only after a successful entry) the fetch of the current
\* project; when the entry or the fetch fails with a remote error, that
\* error is what enter_project raises; when the fetch gives a project,
\* enter_project returns it.
C8_EnterProject ==
    result.op = "enter_project" =>
        LET ce == CallEvents(result)
        IN  /\ Len(ce) \in {2, 3}
            /\ ce[1].what = "do_application_project_exit"
            /\ ce[2].what = "do_application_project_enter"
            /\ ce[2].arg = <<PROJECT_NAME>>
            /\ Len(ce) = 3 <=> ce[2].ok
            /\ Len(ce) = 3 => ce[3].what = "get_projects_current"
            /\ ~ce[Len(ce)].ok =>
                  /\ result.exc = "ApiException"
                  /\ result.e = ce[Len(ce)].re
            /\ (ce[Len(ce)].ok /\ ce[3].re.val # None) =>
                  /\ result.exc = NoExc
                  /\ result.ret = ce[3].re.val


\* the place of each remote operation in the pipeline
Rank(op) ==
    CASE op = "get_system_properties" -> 1
      [] op = "do_application_project_exit" -> 2
      [] op = "do_application_project_enter" -> 3
      [] op = "get_projects_current" -> 4
      [] op = "get_groups" -> 5
      [] op = "select_group" -> 6
      [] op = "get_constructs_current" -> 7
      [] op = "do_application_render_snapshot" -> 8
      [] op = "get_application_render_queue" -> 9
      [] op = "do_application_player_enter_timeline_current" -> 10
      [] op = "set_application_player_playmode" -> 11
      [] OTHER -> 0

\* the remote operations bc of a run come in pipeline order, none before an
\* earlier one has been issued
InOrder(bc) ==
    /\ \A k \in 1..Len(bc) : Rank(bc[k].op) \in 1..11
    /\ \A k \in 2..Len(bc) : Rank(bc[k - 1].op) <= Rank(bc[k].op)
    /\ \A k \in 1..Len(bc) :
          \A q \in 1..(Rank(bc[k].op) - 1) :
              \E j \in 1..(k - 1) : Rank(bc[j].op) = q

\* no remote operation of bc outside `several` is issued twice
OnceExcept(bc, several) ==
    \A k, j \in 1..Len(bc) :
        (bc[k].op \notin several /\ bc[j].op = bc[k].op) => j = k

\* C9 as stated: the remote operations of a run are issued in pipeline order
\* and, snapshot requests apart, none is issued more than once.
C9_OnlySnapshotsRepeat ==
    LET bc == BrowseCalls
    IN  InOrder(bc) /\ OnceExcept(bc, {"do_application_render_snapshot"})

\* C9 as amended: the remote operations of a run are issued in pipeline order
\* and none is retried; the fetch of the current construct is issued twice on
\* purpose (by get_current_construct, then by get_all_shots), the snapshot
\* request once per processed shot, every other operation at most once.
C9_PipelineOrder ==
    LET bc == BrowseCalls
        br == BrowseRets
        snapshots == Count(bc, "do_application_render_snapshot")
    IN  /\ InOrder(bc)
        /\ OnceExcept(bc, {"do_application_render_snapshot", "get_constructs_current"})
        /\ Count(bc, "get_constructs_current") <= 2
        /\ Count(bc, "get_constructs_current") =
              Count(br, "get_current_construct") + Count(br, "get_all_shots")
        /\ Count(br, "get_current_construct") <= 1
        /\ Count(br, "get_all_shots") <= 1
        /\ snapshots = Count(br, "generate_thumbnail")
        /\ pc \in {"thumbnails", "render_queue"} => snapshots = i

C9_Witness ==
    /\ success = "True"
    /\ Count(BrowseCalls, "get_constructs_current") = 2
    /\ SnapshotCalls = ThumbnailLimit
    /\ Len(BrowseCalls) = 16

RequiredMethods ==
    {"get_system_info", "enter_project", "get_groups", "select_group",
     "get_current_construct", "get_all_shots", "generate_thumbnail",
     "get_render_queue", "enter_player", "set_playback_mode"}

\* C10: no exception leaves browse_project; a method that raises, whatever it
\* raises, makes it return False; and it returns True only after every method
\* of the pipeline has completed without raising, a group was selected and a
\* thumbnail was requested for a shot that was found.
C10_NeverEscapes ==
    /\ escaped = NoExc
    /\ Finished <=> success \in {"True", "False"}
    /\ (pc = "returned" /\ last.exc # NoExc) => success = "False"
    /\ \A k \in 1..Len(BrowseRets) :
          BrowseRets[k].exc # NoExc => k = Len(BrowseRets) /\ success = "False"
    /\ success = "True" =>
          /\ \A m \in RequiredMethods : Count(BrowseRets, m) >= 1
          /\ \A k \in 1..Len(BrowseRets) : BrowseRets[k].exc = NoExc
          /\ Count(BrowseCalls, "select_group") = 1
          /\ SnapshotCalls >= 1

C10_Witness ==
    /\ pc = "returned"
    /\ success = "False"
    /\ last.op = "get_groups"
    /\ last.exc = "AttributeError"

====
